---- MODULE Spec2Model ----
(***************************************************************************)
(* NNAPI QDQ selectors (nnapi_qdq_selectors.cc).                           *)
(*                                                                         *)
(* A selector looks at one node of the graph, collects the DequantizeLinear*)
(* producers and QuantizeLinear consumers around it, runs the per-kind     *)
(* Check and, on success, builds the ConstNodesToOptimize selection.       *)
(*                                                                         *)
(* C++ vectors are 0-based, TLA+ sequences 1-based: dq_nodes[0] of the     *)
(* source is dq_nodes[1] here.                                             *)
(***************************************************************************)
EXTENDS Integers, Sequences, FiniteSets, TLC

\* ---- bounds of the explored graphs -------------------------------------
MaxInputDefs == 4
MaxOutputDefs == 1
MaxQNodes == 2

\* ---- ONNX TensorProto_DataType values used by the checkers -------------
TensorProto_DataType_UINT8 == 2
TensorProto_DataType_INT8 == 3
TensorProto_DataType_INT32 == 6

\* element types a DequantizeLinear input is declared with in the explored graphs
ElemTypes ==
  {TensorProto_DataType_UINT8, TensorProto_DataType_INT8, TensorProto_DataType_INT32}

\* element types a QuantizeLinear output is declared with in the explored graphs
QElemTypes == {TensorProto_DataType_UINT8, TensorProto_DataType_INT8}

\* what a read through an out-of-range vector element may yield: one of the
\* values the checkers compare with, or a value (0) that is none of them
GarbageTypes == ElemTypes \cup {0}

Selectors == {"Unary", "Binary", "Variadic", "Conv", "MatMul"}

\* a NodeArg slot: bound to a tensor, or an optional entry that does not exist
ArgSlots == {"exists", "missing"}

\* nullptr entry of builder.input_nodes
NullNode == [id |-> 0, elem_type |-> 0]

\* the caller's std::unique_ptr<ConstNodesToOptimize> before the call
NullSelection == [target_node |-> <<>>, input_nodes |-> <<>>, output_nodes |-> <<>>,
                  num_input_defs |-> <<>>, built |-> FALSE]

VARIABLES
  selector,        \* which BaseSelector subclass is invoked
  int8_allowed_,   \* UnarySelector::int8_allowed_
  node,            \* the node under inspection: InputDefs, OutputDefs, graph-output flag
  dq_nodes,        \* graph_utils::FindParentsByType(node, "DequantizeLinear")
  q_nodes,         \* graph_utils::FindChildrenByType(node, "QuantizeLinear")
  pc,              \* "call" before Select runs, "done" after
  returned,        \* "none" | "match" | "nomatch" | "fault"
  selection,       \* the caller's selection output
  oob              \* TRUE when Select indexed dq_nodes / q_nodes past the end

vars == <<selector, int8_allowed_, node, dq_nodes, q_nodes, pc, returned, selection, oob>>

\* ---- helpers ------------------------------------------------------------
SeqsUpTo(S, n) == UNION {[1..k -> S] : k \in 0..n}

\* the lambda of NumActualValues: def && def->Exists()
DefExists(def) == def = "exists"

\* std::count_if(defs.cbegin(), defs.cend(), DefExists)
RECURSIVE CountIfExists(_)
CountIfExists(defs) ==
  IF defs = <<>> THEN 0
  ELSE (IF DefExists(Head(defs)) THEN 1 ELSE 0) + CountIfExists(Tail(defs))

\* int NumActualValues(const Node& node, bool input)
NumActualValues(n, input) ==
  LET defs == IF input THEN n.InputDefs ELSE n.OutputDefs
  IN  CountIfExists(defs)

\* nodes[i]->...Defs()[0]->TypeAsProto()->tensor_type().elem_type(), i 1-based;
\* the set of values the read can produce
ElemTypeAt(nodes, i) ==
  IF i \in 1..Len(nodes) THEN {nodes[i].elem_type} ELSE GarbageTypes

InRange(nodes, i) == i \in 1..Len(nodes)

\* num_dq_inputs default argument of CheckQDQNodes
DefaultNumDqInputs == 0 - 1

\* CheckQDQNodes without the graph-output test
CheckQDQNodes_NoGraphOutputTest(n, dqs, qs, num_dq_inputs) ==
  LET num_dq == IF num_dq_inputs = DefaultNumDqInputs
                THEN NumActualValues(n, TRUE) ELSE num_dq_inputs
  IN  /\ num_dq = Len(dqs)
      /\ NumActualValues(n, FALSE) = Len(qs)

\* CheckQDQNodes without the DQ-count test
CheckQDQNodes_NoDqCount(n, dqs, qs, num_dq_inputs) ==
  /\ NumActualValues(n, FALSE) = Len(qs)
  /\ ~n.produces_graph_output

\* CheckQDQNodes without the output-count test
CheckQDQNodes_NoOutputCount(n, dqs, qs, num_dq_inputs) ==
  LET num_dq == IF num_dq_inputs = DefaultNumDqInputs
                THEN NumActualValues(n, TRUE) ELSE num_dq_inputs
  IN  /\ num_dq = Len(dqs)
      /\ ~n.produces_graph_output

\* BaseSelector::CheckQDQNodes
CheckQDQNodes(n, dqs, qs, num_dq_inputs) ==
  LET num_dq == IF num_dq_inputs = DefaultNumDqInputs
                THEN NumActualValues(n, TRUE) ELSE num_dq_inputs
      num_outputs == NumActualValues(n, FALSE)
  IN  /\ num_dq = Len(dqs)
      /\ num_outputs = Len(qs)
      /\ ~n.produces_graph_output

\* outcomes of a Check: the set of values it may return, with the out-of-range flag;
\* a Check that read past the end of a vector may also fault instead of returning
CheckOutcomes(rets, readOob) ==
  {[ret |-> b, oob |-> readOob, fault |-> FALSE] : b \in rets}
    \cup (IF readOob THEN {[ret |-> FALSE, oob |-> TRUE, fault |-> TRUE]} ELSE {})

Rejected == {[ret |-> FALSE, oob |-> FALSE, fault |-> FALSE]}

\* the element-type test of UnarySelector::Check with int8 always accepted
Int8OrUint8_IgnoreFlag(dt, int8) ==
  dt \in {TensorProto_DataType_UINT8, TensorProto_DataType_INT8}

\* the element-type test of UnarySelector::Check, lines 81-84
Int8OrUint8(dt, int8) ==
  \/ dt = TensorProto_DataType_UINT8
  \/ (int8 /\ dt = TensorProto_DataType_INT8)

\* UnarySelector::Check
UnarySelectorCheck(n, dqs, qs, int8) ==
  IF ~CheckQDQNodes(n, dqs, qs, 1) THEN Rejected
  ELSE CheckOutcomes(
         {Int8OrUint8(dt_input, int8) /\ Int8OrUint8(dt_output, int8) :
            dt_input \in ElemTypeAt(dqs, 1), dt_output \in ElemTypeAt(qs, 1)},
         ~InRange(dqs, 1) \/ ~InRange(qs, 1))

\* BinarySelector::Check comparing only the first input with the output
BinarySelectorCheck_FirstInputOnly(n, dqs, qs) ==
  IF ~CheckQDQNodes(n, dqs, qs, DefaultNumDqInputs) THEN Rejected
  ELSE CheckOutcomes(
         {dt_input_1 = dt_output :
            dt_input_1 \in ElemTypeAt(dqs, 1), dt_output \in ElemTypeAt(qs, 1)},
         ~InRange(dqs, 1) \/ ~InRange(dqs, 2) \/ ~InRange(qs, 1))

\* BinarySelector::Check
BinarySelectorCheck(n, dqs, qs) ==
  IF ~CheckQDQNodes(n, dqs, qs, DefaultNumDqInputs) THEN Rejected
  ELSE CheckOutcomes(
         {dt_input_1 = dt_input_2 /\ dt_input_1 = dt_output :
            dt_input_1 \in ElemTypeAt(dqs, 1), dt_input_2 \in ElemTypeAt(dqs, 2),
            dt_output \in ElemTypeAt(qs, 1)},
         ~InRange(dqs, 1) \/ ~InRange(dqs, 2) \/ ~InRange(qs, 1))

\* VariadicSelector::Check with the loop starting one element late
VariadicSelectorCheck_LoopOffByOne(n, dqs, qs) ==
  IF ~CheckQDQNodes(n, dqs, qs, DefaultNumDqInputs) THEN Rejected
  ELSE UNION {
         IF \E dq_idx \in 3..Len(dqs) : dt_input # dqs[dq_idx].elem_type
         THEN CheckOutcomes({FALSE}, ~InRange(dqs, 1))
         ELSE CheckOutcomes({dt_input = dt_output : dt_output \in ElemTypeAt(qs, 1)},
                            ~InRange(dqs, 1) \/ ~InRange(qs, 1))
         : dt_input \in ElemTypeAt(dqs, 1)}

\* VariadicSelector::Check: the loop returns before q_nodes[0] is read
VariadicSelectorCheck(n, dqs, qs) ==
  IF ~CheckQDQNodes(n, dqs, qs, DefaultNumDqInputs) THEN Rejected
  ELSE UNION {
         IF \E dq_idx \in 2..Len(dqs) : dt_input # dqs[dq_idx].elem_type
         THEN CheckOutcomes({FALSE}, ~InRange(dqs, 1))
         ELSE CheckOutcomes({dt_input = dt_output : dt_output \in ElemTypeAt(qs, 1)},
                            ~InRange(dqs, 1) \/ ~InRange(qs, 1))
         : dt_input \in ElemTypeAt(dqs, 1)}

\* ConvSelector::Check
ConvSelectorCheck(n, dqs, qs) ==
  IF ~CheckQDQNodes(n, dqs, qs, DefaultNumDqInputs) THEN Rejected
  ELSE CheckOutcomes(
         {IF dt_input # TensorProto_DataType_UINT8 \/ dt_output # TensorProto_DataType_UINT8
          THEN FALSE
          ELSE IF Len(dqs) < 3 THEN TRUE
          ELSE dqs[3].elem_type = TensorProto_DataType_INT32 :
            dt_input \in ElemTypeAt(dqs, 1), dt_output \in ElemTypeAt(qs, 1)},
         ~InRange(dqs, 1) \/ ~InRange(qs, 1))

\* MatMulSelector::Check running CheckQDQNodes in the no-Q form too
MatMulSelectorCheck_AlwaysCheckQDQ(n, dqs, qs) ==
  IF Len(dqs) # 2 THEN Rejected
  ELSE IF ~CheckQDQNodes(n, dqs, qs, DefaultNumDqInputs) THEN Rejected
  ELSE IF qs # <<>> /\ qs[1].elem_type # TensorProto_DataType_UINT8 THEN Rejected
  ELSE CheckOutcomes(
         {dt_input = TensorProto_DataType_UINT8 : dt_input \in ElemTypeAt(dqs, 1)},
         ~InRange(dqs, 1))

\* MatMulSelector::Check
MatMulSelectorCheck(n, dqs, qs) ==
  IF Len(dqs) # 2 THEN Rejected
  ELSE LET qlinear == qs # <<>>
       IN  IF qlinear /\ ~CheckQDQNodes(n, dqs, qs, DefaultNumDqInputs) THEN Rejected
           ELSE IF qlinear /\ qs[1].elem_type # TensorProto_DataType_UINT8 THEN Rejected
           ELSE CheckOutcomes(
                  {dt_input = TensorProto_DataType_UINT8 : dt_input \in ElemTypeAt(dqs, 1)},
                  ~InRange(dqs, 1))

\* virtual bool Check(...) dispatched on the selector
Check(sel, n, dqs, qs, int8) ==
  CASE sel = "Unary"    -> UnarySelectorCheck(n, dqs, qs, int8)
    [] sel = "Binary"   -> BinarySelectorCheck(n, dqs, qs)
    [] sel = "Variadic" -> VariadicSelectorCheck(n, dqs, qs)
    [] sel = "Conv"     -> ConvSelectorCheck(n, dqs, qs)
    [] sel = "MatMul"   -> MatMulSelectorCheck(n, dqs, qs)

\* std::vector::resize(k): truncates, or pads with value-initialised (null) entries
Resize(s, k) == [i \in 1..k |-> IF i <= Len(s) THEN s[i] ELSE NullNode]

\* VariadicSelector::UpdateBuilder
VariadicSelectorUpdateBuilder(builder) == [builder EXCEPT !.num_input_defs = <<1>>]

\* ConvSelector::UpdateBuilder that leaves input_nodes as collected
ConvSelectorUpdateBuilder_NoResize(builder) == builder

\* ConvSelector::UpdateBuilder
ConvSelectorUpdateBuilder(builder) ==
  [builder EXCEPT !.input_nodes = Resize(builder.input_nodes, 3)]

\* virtual void UpdateBuilder(...); the base implementation does nothing
UpdateBuilder(sel, builder) ==
  CASE sel = "Variadic" -> VariadicSelectorUpdateBuilder(builder)
    [] sel = "Conv"     -> ConvSelectorUpdateBuilder(builder)
    [] OTHER            -> builder

\* the builder with the parents pushed in reverse order
BuildSelection_Reversed(sel, n, dqs, qs) ==
  UpdateBuilder(sel, [target_node |-> <<n>>,
                      input_nodes |-> [i \in 1..Len(dqs) |-> dqs[Len(dqs) + 1 - i]],
                      output_nodes |-> qs, num_input_defs |-> <<>>, built |-> TRUE])

\* the builder filled by BaseSelector::Select, lines 50-66
BuildSelection(sel, n, dqs, qs) ==
  UpdateBuilder(sel, [target_node |-> <<n>>, input_nodes |-> dqs, output_nodes |-> qs,
                      num_input_defs |-> <<>>, built |-> TRUE])

\* number of argument slots that are bound to a tensor
ExistingDefs(defs) == Cardinality({i \in DOMAIN defs : defs[i] = "exists"})

\* ---- the state machine ---------------------------------------------------
\* nodes found by the graph query, numbered in discovery order
NodeSeqs(T, n) ==
  {[i \in 1..Len(ts) |-> [id |-> i, elem_type |-> ts[i]]] : ts \in SeqsUpTo(T, n)}

\* the nodes a selector can be handed: only an existing output can be a graph output
Nodes ==
  {n \in [InputDefs : SeqsUpTo(ArgSlots, MaxInputDefs),
          OutputDefs : SeqsUpTo(ArgSlots, MaxOutputDefs),
          produces_graph_output : BOOLEAN] :
     n.produces_graph_output => ExistingDefs(n.OutputDefs) > 0}

Init ==
  /\ selector \in Selectors
  \* the flag is read by UnarySelector only; BinarySelector is explored under both
  \* settings as well
  /\ int8_allowed_ \in (IF selector \in {"Unary", "Binary"} THEN BOOLEAN ELSE {FALSE})
  /\ node \in Nodes
  \* at most one DQ parent per existing input, in input order
  /\ dq_nodes \in NodeSeqs(ElemTypes, ExistingDefs(node.InputDefs))
  \* any number of Q children, provided the node has an output to consume
  /\ q_nodes \in NodeSeqs(QElemTypes,
                           IF ExistingDefs(node.OutputDefs) > 0 THEN MaxQNodes ELSE 0)
  /\ pc = "call"
  /\ returned = "none"
  /\ selection = NullSelection
  /\ oob = FALSE

\* BaseSelector::Select
Select ==
  /\ pc = "call"
  /\ \E o \in Check(selector, node, dq_nodes, q_nodes, int8_allowed_) :
       /\ oob' = o.oob
       /\ returned' = IF o.fault THEN "fault" ELSE IF o.ret THEN "match" ELSE "nomatch"
       /\ selection' = IF o.ret THEN BuildSelection(selector, node, dq_nodes, q_nodes)
                       ELSE selection
  /\ pc' = "done"
  /\ UNCHANGED <<selector, int8_allowed_, node, dq_nodes, q_nodes>>

Next == Select

Spec == Init /\ [][Next]_vars

TypeOK ==
  /\ selector \in Selectors
  /\ int8_allowed_ \in BOOLEAN
  /\ pc \in {"call", "done"}
  /\ returned \in {"none", "match", "nomatch", "fault"}
  /\ oob \in BOOLEAN
  /\ Len(node.InputDefs) <= MaxInputDefs
  /\ Len(dq_nodes) <= ExistingDefs(node.InputDefs)
  /\ Len(q_nodes) <= MaxQNodes
  /\ (node.produces_graph_output \/ q_nodes # <<>>) => ExistingDefs(node.OutputDefs) > 0

\* ---- vocabulary of the properties ----------------------------------------
Done == pc = "done"
Matched == Done /\ returned = "match"
NonMatch == Done /\ returned = "nomatch" /\ selection = NullSelection

NumInputs == ExistingDefs(node.InputDefs)
NumOutputs == ExistingDefs(node.OutputDefs)
GraphOutput == node.produces_graph_output

U8 == TensorProto_DataType_UINT8
I8 == TensorProto_DataType_INT8
I32 == TensorProto_DataType_INT32

DqType(i) == dq_nodes[i].elem_type
QType(i) == q_nodes[i].elem_type

MatMulNoQ == selector = "MatMul" /\ q_nodes = <<>>

\* ---- C1 -------------------------------------------------------------------
\* C1 as stated: a node that directly produces a graph output is never matched,
\* by any selector, the MatMul form without Q consumers included.
C1_GraphOutputNeverMatched ==
  (Done /\ GraphOutput) => NonMatch

\* C1 amended: a node that directly produces a graph output is a non-match for
\* Unary, Binary, Variadic, Conv, and for MatMul with at least one Q consumer;
\* MatMul without Q consumers skips CheckQDQNodes and matches such a node exactly
\* when it has 2 DQ producers, the first of type UINT8.
C1_GraphOutputRejectedUnlessMatMulNoQ ==
  (Done /\ GraphOutput) =>
     IF MatMulNoQ
     THEN (Matched <=> (Len(dq_nodes) = 2 /\ DqType(1) = U8)) /\ (Matched \/ NonMatch)
     ELSE NonMatch

C1_Witness ==
  /\ Done /\ GraphOutput /\ selector = "MatMul"
  /\ Len(dq_nodes) = 2 /\ NumInputs = 2 /\ DqType(1) = U8
  /\ Len(q_nodes) = 1 /\ NumOutputs = 1 /\ QType(1) = U8
  /\ NonMatch

\* ---- C2 -------------------------------------------------------------------
\* C2 as stated: every match has as many output_nodes as the node has existing
\* outputs, the MatMul form without Q consumers included.
C2_OutputNodesEqualExistingOutputs ==
  Matched => Len(selection.output_nodes) = NumOutputs

\* C2 amended: every match other than MatMul's form without Q consumers has as
\* many output_nodes as the node has existing outputs; the MatMul form without
\* Q consumers has no output_nodes whatever the node's outputs.
C2_OutputNodesEqualExistingOutputsUnlessMatMulNoQ ==
  Matched =>
     IF MatMulNoQ THEN selection.output_nodes = <<>>
     ELSE Len(selection.output_nodes) = NumOutputs

C2_Witness ==
  /\ Matched /\ selector = "Unary"
  /\ NumOutputs = 1 /\ Len(q_nodes) = 1
  /\ Len(selection.output_nodes) = 1

\* ---- C3 -------------------------------------------------------------------
\* C3: Binary, Variadic and Conv reject every node whose number of DQ producers
\* differs from its number of existing input slots.
C3_DqCountMismatchRejected ==
  (Done /\ selector \in {"Binary", "Variadic", "Conv"} /\ Len(dq_nodes) # NumInputs)
     => NonMatch

C3_Witness ==
  /\ Done /\ selector = "Variadic" /\ ~GraphOutput
  /\ NumInputs = 3 /\ Len(dq_nodes) = 2 /\ DqType(1) = U8 /\ DqType(2) = U8
  /\ NumOutputs = 1 /\ Len(q_nodes) = 1 /\ QType(1) = U8
  /\ NonMatch

\* ---- C4 -------------------------------------------------------------------
\* C4: MatMul. (a) a DQ count other than 2 is a non-match; (b) 2 DQs, the first
\* UINT8, and no Q is a match without CheckQDQNodes being applied; (c) the same
\* with one UINT8 Q is a match on a node with 2 existing inputs, 1 existing
\* output that is no graph output; (d) a first Q of another type is a non-match;
\* (e) a first DQ of another type is a non-match.
C4_MatMul ==
  (Done /\ selector = "MatMul") =>
     /\ Len(dq_nodes) # 2 => NonMatch
     /\ (Len(dq_nodes) = 2 /\ DqType(1) = U8 /\ q_nodes = <<>>) => Matched
     /\ (Len(dq_nodes) = 2 /\ DqType(1) = U8 /\ Len(q_nodes) = 1 /\ QType(1) = U8
           /\ NumInputs = 2 /\ NumOutputs = 1 /\ ~GraphOutput) => Matched
     /\ (Len(q_nodes) >= 1 /\ QType(1) # U8) => NonMatch
     /\ (Len(dq_nodes) >= 1 /\ DqType(1) # U8) => NonMatch

C4_Witness ==
  /\ Matched /\ selector = "MatMul"
  /\ q_nodes = <<>> /\ NumOutputs = 1 /\ NumInputs = 3 /\ GraphOutput
  /\ DqType(1) = U8 /\ DqType(2) = I8

\* ---- C5 -------------------------------------------------------------------
ConvScope ==
  /\ Done /\ selector = "Conv" /\ ~GraphOutput
  /\ NumOutputs = 1 /\ Len(q_nodes) = 1

\* C5: Conv, on a node that is no graph output with one existing output and one
\* Q consumer. (a) 2 inputs, 2 DQs, activation and output UINT8: match, and
\* input_nodes is the two DQs followed by one null entry; (b) 3 inputs, 3 DQs,
\* the third INT32: match, input_nodes is the three DQs; (c) a third DQ of
\* another type: non-match; an activation or output type other than UINT8 is a
\* non-match.
C5_Conv ==
  ConvScope =>
     /\ (NumInputs = 2 /\ Len(dq_nodes) = 2 /\ DqType(1) = U8 /\ QType(1) = U8) =>
          /\ Matched
          /\ selection.input_nodes = <<dq_nodes[1], dq_nodes[2], NullNode>>
     /\ (NumInputs = 3 /\ Len(dq_nodes) = 3 /\ DqType(1) = U8 /\ QType(1) = U8
           /\ DqType(3) = I32) =>
          /\ Matched
          /\ selection.input_nodes = <<dq_nodes[1], dq_nodes[2], dq_nodes[3]>>
     /\ (Len(dq_nodes) >= 3 /\ DqType(3) # I32) => NonMatch
     /\ (Len(dq_nodes) >= 1 /\ (DqType(1) # U8 \/ QType(1) # U8)) => NonMatch

C5_Witness ==
  /\ ConvScope /\ Matched
  /\ NumInputs = 2 /\ Len(dq_nodes) = 2 /\ DqType(2) = I8
  /\ Len(selection.input_nodes) = 3 /\ selection.input_nodes[3] = NullNode

\* ---- C6 -------------------------------------------------------------------
Int8Family(dt) == dt = U8 \/ (int8_allowed_ /\ dt = I8)

\* C6: Unary, on a node that is no graph output, with exactly one DQ producer
\* (whatever its number of existing inputs) and as many Q consumers as existing
\* outputs: matched iff the DQ input type and the Q output type are each UINT8,
\* or INT8 when int8_allowed_ is set.
C6_Unary ==
  (Done /\ selector = "Unary" /\ ~GraphOutput /\ Len(dq_nodes) = 1
      /\ Len(q_nodes) = NumOutputs /\ Len(q_nodes) >= 1) =>
     /\ Matched <=> (Int8Family(DqType(1)) /\ Int8Family(QType(1)))
     /\ Matched \/ NonMatch

C6_Witness ==
  /\ Matched /\ selector = "Unary" /\ int8_allowed_
  /\ NumInputs = 3 /\ Len(dq_nodes) = 1 /\ NumOutputs = 1 /\ Len(q_nodes) = 1
  /\ DqType(1) = U8 /\ QType(1) = I8

\* ---- C7 -------------------------------------------------------------------
VariadicScope ==
  /\ Done /\ selector = "Variadic" /\ ~GraphOutput
  /\ NumInputs >= 1 /\ Len(dq_nodes) = NumInputs
  /\ Len(q_nodes) = NumOutputs /\ Len(q_nodes) >= 1

\* C7: Variadic, on a node that is no graph output with N >= 1 existing inputs,
\* N DQs and as many Qs as existing outputs: when every DQ has the type T of the
\* first Q, the node is matched and num_input_defs is 1; when a single DQ, at any
\* position, has another type, the node is a non-match.
C7_Variadic ==
  VariadicScope =>
     /\ (\A i \in 1..Len(dq_nodes) : DqType(i) = QType(1)) =>
          (Matched /\ selection.num_input_defs = <<1>>)
     /\ \A i \in 1..Len(dq_nodes) :
          (DqType(i) # QType(1)
             /\ \A j \in 1..Len(dq_nodes) : j # i => DqType(j) = QType(1))
          => NonMatch

C7_Witness ==
  /\ VariadicScope /\ NonMatch
  /\ Len(dq_nodes) = 3
  /\ DqType(1) = I8 /\ DqType(2) = U8 /\ DqType(3) = I8 /\ QType(1) = I8

C9_NoOutOfBoundsRead ==
  Done => (~oob /\ returned \in {"match", "nomatch"})

\* ---- C10 ------------------------------------------------------------------
IsPrefixPaddedWithNull(s, prefix) ==
  /\ Len(s) >= Len(prefix)
  /\ \A i \in 1..Len(s) : s[i] = IF i <= Len(prefix) THEN prefix[i] ELSE NullNode

====
